---- MODULE Spec2Model ----
(***************************************************************************)
(* MemFS (fsprovider-sample/src/fileSystemProvider.ts): an in-memory file  *)
(* system provider.  Entries are objects on a heap (object identity is     *)
(* kept, so aliasing and cycles are representable); directories hold an    *)
(* insertion-ordered Map from names to entries; file content lives in a    *)
(* WeakMap keyed by entry; change events are buffered and delivered by a   *)
(* 5 ms timer that every _fireSoon call re-arms.                           *)
(***************************************************************************)
EXTENDS Integers, Sequences, FiniteSets, TLC

\* ---------------------------------------------------------------- bounds
\* most events ever handed to _fireSoon in one run
MaxRecorded == 4
\* longest content handed to writeFile, in bytes
MaxContentLen == 1

\* ---------------------------------------------------------------- inputs
Slash == "/"
Bytes == {65}
Times == {0, 1}

SeqsUpTo(S, n) == UNION {[1..k -> S] : k \in 0..n}

\* uri.path values, character by character: the empty path, the root, two
\* siblings, a nested path, a trailing slash and a doubled slash
Paths ==
  { <<>>,
    <<Slash>>,
    <<Slash, "a">>,
    <<Slash, "b">>,
    <<Slash, "a", Slash, "b">>,
    <<Slash, "a", Slash>>,
    <<Slash, "a", Slash, Slash, "b">> }

Contents == SeqsUpTo(Bytes, MaxContentLen)
Options == [create : BOOLEAN, exclusive : BOOLEAN]

\* ---------------------------------------------------------------- paths
HasSlash(p) == \E i \in 1..Len(p) : p[i] = Slash
FirstSlash(p) == CHOOSE i \in 1..Len(p) : p[i] = Slash /\ \A j \in 1..(i-1) : p[j] # Slash

\* String.prototype.split('/')
RECURSIVE Split(_)
Split(p) ==
  IF ~HasSlash(p) THEN <<p>>
  ELSE LET i == FirstSlash(p)
       IN <<SubSeq(p, 1, i-1)>> \o Split(SubSeq(p, i+1, Len(p)))

\* path.posix.basename: strip trailing slashes, keep what follows the last slash
Basename(p) ==
  LET nonSlash == {i \in 1..Len(p) : p[i] # Slash}
  IN IF nonSlash = {} THEN <<>>
     ELSE LET end == CHOOSE i \in nonSlash : \A j \in nonSlash : j <= i
              slashes == {i \in 1..end : p[i] = Slash}
              start == IF slashes = {} THEN 1
                       ELSE (CHOOSE i \in slashes : \A j \in slashes : j <= i) + 1
          IN SubSeq(p, start, end)

\* path.posix.dirname
Dirname(p) ==
  IF Len(p) = 0 THEN <<".">>
  ELSE
    LET hasRoot == p[1] = Slash
        \* positions (1-based, from the second character on) of a slash that
        \* has a non-slash character somewhere after it
        cand == {i \in 2..Len(p) : p[i] = Slash /\ \E j \in (i+1)..Len(p) : p[j] # Slash}
    IN IF cand = {} THEN (IF hasRoot THEN <<Slash>> ELSE <<".">>)
       ELSE LET end == CHOOSE i \in cand : \A j \in cand : j <= i
            IN IF hasRoot /\ end = 2 THEN <<Slash, Slash>>
               ELSE SubSeq(p, 1, end - 1)

\* ---------------------------------------------------------------- Map
\* A JavaScript Map: a sequence of [name, ref] in insertion order, names unique.
MapHas(m, k) == \E i \in 1..Len(m) : m[i].name = k
MapGet(m, k) == LET i == CHOOSE i \in 1..Len(m) : m[i].name = k IN m[i].ref
MapSet(m, k, r) ==
  IF MapHas(m, k) THEN [i \in 1..Len(m) |-> IF m[i].name = k THEN [name |-> k, ref |-> r] ELSE m[i]]
  ELSE Append(m, [name |-> k, ref |-> r])
MapDelete(m, k) == SelectSeq(m, LAMBDA e : e.name # k)
MapRefs(m) == {m[i].ref : i \in 1..Len(m)}

\* ---------------------------------------------------------------- entries
_root == 0

File(name, now) ==
  [isDirectory |-> FALSE, mtime |-> now, size |-> 0, name |-> name, entries |-> <<>>]
Directory(name, now) ==
  [isDirectory |-> TRUE, mtime |-> now, size |-> 0, name |-> name, entries |-> <<>>]

OK == "ok"
EntryNotFound == "EntryNotFound"
EntryExists == "EntryExists"
EntryNotADirectory == "EntryNotADirectory"

\* _lookup: walk the non-empty parts from the root
RECURSIVE Walk(_, _, _)
Walk(heap, ref, parts) ==
  IF parts = <<>> THEN [err |-> OK, ref |-> ref]
  ELSE IF Head(parts) = <<>> THEN Walk(heap, ref, Tail(parts))
  ELSE IF heap[ref].isDirectory /\ MapHas(heap[ref].entries, Head(parts))
       THEN Walk(heap, MapGet(heap[ref].entries, Head(parts)), Tail(parts))
       ELSE [err |-> EntryNotFound, ref |-> ref]

_lookup(heap, uri) == Walk(heap, _root, Split(uri))

\* (mutant) a File where a Directory is wanted is reported as missing
_lookupDir_NotFound(heap, uri) ==
  LET r == _lookup(heap, uri)
  IN IF r.err # OK THEN r
     ELSE IF ~heap[r.ref].isDirectory THEN [err |-> EntryNotFound, ref |-> r.ref]
     ELSE r

_lookupDir(heap, uri) ==
  LET r == _lookup(heap, uri)
  IN IF r.err # OK THEN r
     ELSE IF ~heap[r.ref].isDirectory THEN [err |-> EntryNotADirectory, ref |-> r.ref]
     ELSE r

_lookupContainer(heap, uri) == _lookupDir(heap, Dirname(uri))

\* ---------------------------------------------------------------- state
VARIABLES
  heap,             \* object id -> Entry (File or Directory); _root is object 0
  _data,            \* the WeakMap Entry -> Uint8Array
  _bufferedEvents,  \* events waiting for the timer
  _fireSoonHandle,  \* the timer _fireSoon armed last (0: none yet)
  timers,           \* timers armed and neither fired nor cleared
  batches,          \* what the subscriber was handed, one element per fire
  recorded,         \* every event ever passed to _fireSoon, in order
  burst             \* events of the calls made since the timer last fired

vars == <<heap, _data, _bufferedEvents, _fireSoonHandle, timers, batches, recorded, burst>>

\* the provider's fields as one value, threaded through a handler's statements
Store ==
  [heap |-> heap, data |-> _data, buf |-> _bufferedEvents,
   handle |-> _fireSoonHandle, timers |-> timers, recorded |-> recorded]

Event(type, uri) == [type |-> type, uri |-> uri]
Created == "Created"
Changed == "Changed"
Deleted == "Deleted"

\* setTimeout returns a timer distinct from every armed one
NewTimer(armed) == CHOOSE t \in 1..(Cardinality(armed) + 1) :
                     t \notin armed /\ \A u \in 1..(t-1) : u \in armed

\* (mutant) the timer armed before is not cleared
_fireSoon_NoClear(st, events) ==
  LET t == NewTimer(st.timers)
  IN [st EXCEPT !.buf = st.buf \o events,
                !.timers = st.timers \cup {t},
                !.handle = t,
                !.recorded = st.recorded \o events]

\* _fireSoon(...events): push, clearTimeout(handle), handle = setTimeout(...)
_fireSoon(st, events) ==
  LET cleared == st.timers \ {st.handle}
      t == NewTimer(cleared)
  IN [st EXCEPT !.buf = st.buf \o events,
                !.timers = cleared \cup {t},
                !.handle = t,
                !.recorded = st.recorded \o events]

\* new File(..) / new Directory(..) gets an object id no live object has
NewRef(h) == CHOOSE r \in 1..(Cardinality(DOMAIN h) + 1) :
               r \notin DOMAIN h /\ \A q \in 1..(r-1) : q \in DOMAIN h

Alloc(h, r, e) == [q \in DOMAIN h \cup {r} |-> IF q = r THEN e ELSE h[q]]

DataSet(d, r, c) == [q \in DOMAIN d \cup {r} |-> IF q = r THEN c ELSE d[q]]

Result(err, st) == [err |-> err, st |-> st]

\* stat(uri): the entry _lookup finds
stat(h, uri) == _lookup(h, uri)

\* readDirectory(uri): the [name, child] pairs of the directory, in Map order
readDirectory(h, uri) ==
  LET r == _lookupDir(h, uri)
  IN IF r.err # OK THEN [err |-> r.err, value |-> <<>>]
     ELSE [err |-> OK, value |-> h[r.ref].entries]

\* readFile(uri): _data.get(entry) || new Uint8Array(0)
readFile(h, d, uri) ==
  LET r == _lookup(h, uri)
  IN IF r.err # OK THEN [err |-> r.err, value |-> <<>>]
     ELSE [err |-> OK, value |-> IF r.ref \in DOMAIN d THEN d[r.ref] ELSE <<>>]

\* (mutant) the exclusive check forgets options.create
WriteCheck_IgnoresCreate(present, options) ==
  IF ~present /\ ~options.create THEN EntryNotFound
  ELSE IF present /\ options.exclusive THEN EntryExists
  ELSE OK

\* the two throws of writeFile: what the options make of the target's presence
WriteCheck(present, options) ==
  IF ~present /\ ~options.create THEN EntryNotFound
  ELSE IF present /\ options.create /\ options.exclusive THEN EntryExists
  ELSE OK

\* writeFile(uri, content, options); t1 and t2 are its two Date.now() readings
\* (new File(..) takes t1, entry.mtime = Date.now() takes t2)
writeFile(st, uri, content, options, t1, t2) ==
  LET basename == Basename(uri)
      pl == _lookupContainer(st.heap, uri)
  IN IF pl.err # OK THEN Result(pl.err, st)
     ELSE
       LET parent == pl.ref
           present == MapHas(st.heap[parent].entries, basename)
       IN IF WriteCheck(present, options) # OK THEN Result(WriteCheck(present, options), st)
          ELSE
            LET fresh == NewRef(st.heap)
                entry == IF present THEN MapGet(st.heap[parent].entries, basename) ELSE fresh
                h1 == IF present THEN st.heap
                      ELSE LET h0 == Alloc(st.heap, fresh, File(basename, t1))
                           IN [h0 EXCEPT ![parent].entries = MapSet(h0[parent].entries, basename, fresh)]
                s1 == IF present THEN st
                      ELSE _fireSoon([st EXCEPT !.heap = h1], <<Event(Created, uri)>>)
                h2 == [h1 EXCEPT ![entry].mtime = t2, ![entry].size = Len(content)]
                s2 == [s1 EXCEPT !.heap = h2, !.data = DataSet(s1.data, entry, content)]
            IN Result(OK, _fireSoon(s2, <<Event(Changed, uri)>>))

\* (mutant) the entry leaves its old parent before the destination is resolved
rename_UnlinksFirst(st, oldUri, newUri) ==
  LET el == _lookup(st.heap, oldUri)
      ol == _lookupContainer(st.heap, oldUri)
  IN IF el.err # OK THEN Result(el.err, st)
     ELSE IF ol.err # OK THEN Result(ol.err, st)
     ELSE
       LET entry == el.ref
           oldParent == ol.ref
           h1 == [st.heap EXCEPT ![oldParent].entries = MapDelete(@, st.heap[entry].name)]
           nl == _lookupContainer(h1, newUri)
       IN IF nl.err # OK THEN Result(nl.err, [st EXCEPT !.heap = h1])
          ELSE
            LET newParent == nl.ref
                newName == Basename(newUri)
                h2 == [h1 EXCEPT ![entry].name = newName]
                h3 == [h2 EXCEPT ![newParent].entries = MapSet(@, newName, entry)]
            IN Result(OK, _fireSoon([st EXCEPT !.heap = h3],
                                    <<Event(Deleted, oldUri), Event(Created, newUri)>>))

\* rename(oldUri, newUri)
rename(st, oldUri, newUri) ==
  LET el == _lookup(st.heap, oldUri)
      ol == _lookupContainer(st.heap, oldUri)
      nl == _lookupContainer(st.heap, newUri)
  IN IF el.err # OK THEN Result(el.err, st)
     ELSE IF ol.err # OK THEN Result(ol.err, st)
     ELSE IF nl.err # OK THEN Result(nl.err, st)
     ELSE
       LET entry == el.ref
           oldParent == ol.ref
           newParent == nl.ref
           newName == Basename(newUri)
           h1 == [st.heap EXCEPT ![oldParent].entries = MapDelete(@, st.heap[entry].name)]
           h2 == [h1 EXCEPT ![entry].name = newName]
           h3 == [h2 EXCEPT ![newParent].entries = MapSet(@, newName, entry)]
       IN Result(OK, _fireSoon([st EXCEPT !.heap = h3],
                               <<Event(Deleted, oldUri), Event(Created, newUri)>>))

\* (mutant) the two events of delete in the other order
delete_DeletedFirst(st, uri, t) ==
  LET dirname == Dirname(uri)
      basename == Basename(uri)
      pl == _lookupDir(st.heap, dirname)
  IN IF pl.err # OK THEN Result(pl.err, st)
     ELSE
       LET parent == pl.ref
       IN IF ~MapHas(st.heap[parent].entries, basename) THEN Result(EntryNotFound, st)
          ELSE
            LET h1 == [st.heap EXCEPT ![parent].entries = MapDelete(@, basename)]
                h2 == [h1 EXCEPT ![parent].mtime = t]
                h3 == [h2 EXCEPT ![parent].size = @ - 1]
            IN Result(OK, _fireSoon([st EXCEPT !.heap = h3],
                                    <<Event(Deleted, uri), Event(Changed, dirname)>>))

\* delete(uri); t is its Date.now() reading
delete(st, uri, t) ==
  LET dirname == Dirname(uri)
      basename == Basename(uri)
      pl == _lookupDir(st.heap, dirname)
  IN IF pl.err # OK THEN Result(pl.err, st)
     ELSE
       LET parent == pl.ref
       IN IF ~MapHas(st.heap[parent].entries, basename) THEN Result(EntryNotFound, st)
          ELSE
            LET h1 == [st.heap EXCEPT ![parent].entries = MapDelete(@, basename)]
                h2 == [h1 EXCEPT ![parent].mtime = t]
                h3 == [h2 EXCEPT ![parent].size = @ - 1]
            IN Result(OK, _fireSoon([st EXCEPT !.heap = h3],
                                    <<Event(Changed, dirname), Event(Deleted, uri)>>))

\* createDirectory(uri); t1 and t2 are its two Date.now() readings
createDirectory(st, uri, t1, t2) ==
  LET basename == Basename(uri)
      dirname == Dirname(uri)
      pl == _lookupDir(st.heap, dirname)
  IN IF pl.err # OK THEN Result(pl.err, st)
     ELSE
       LET parent == pl.ref
           entry == NewRef(st.heap)
           h0 == Alloc(st.heap, entry, Directory(basename, t1))
           h1 == [h0 EXCEPT ![parent].entries = MapSet(@, h0[entry].name, entry)]
           h2 == [h1 EXCEPT ![parent].mtime = t2]
           h3 == [h2 EXCEPT ![parent].size = @ + 1]
       IN Result(OK, _fireSoon([st EXCEPT !.heap = h3],
                               <<Event(Changed, dirname), Event(Created, uri)>>))

\* ---------------------------------------------------------------- runtime
\* objects reachable from _root; the garbage collector frees the others and
\* the WeakMap drops their content
RECURSIVE ReachFrom(_, _)
ReachFrom(h, seen) ==
  LET next == seen \cup UNION {MapRefs(h[r].entries) : r \in seen}
  IN IF next = seen THEN seen ELSE ReachFrom(h, next)

Live(h) == ReachFrom(h, {_root})

Collect(st) ==
  LET live == Live(st.heap)
  IN [st EXCEPT !.heap = [r \in live |-> st.heap[r]],
                !.data = [r \in live \cap DOMAIN st.data |-> st.data[r]]]

\* ---------------------------------------------------------------- calls
\* a mutating call never records more than two events
Room(st) == Len(st.recorded) + 2 <= MaxRecorded

\* the provider after a handler returned and the collector ran
After(st) == Collect(st)

Commit(st) ==
  LET c == After(st)
  IN /\ heap' = c.heap
     /\ _data' = c.data
     /\ _bufferedEvents' = c.buf
     /\ _fireSoonHandle' = c.handle
     /\ timers' = c.timers
     /\ recorded' = c.recorded

\* the events a top-level call recorded join the current burst
Burst(st) == burst' = burst \o SubSeq(st.recorded, Len(recorded) + 1, Len(st.recorded))

\* the provider is constructed at time 0; later Date.now() readings are in Times
Init ==
  /\ heap = [r \in {_root} |-> Directory(<<>>, 0)]
  /\ _data = <<>>
  /\ _bufferedEvents = <<>>
  /\ _fireSoonHandle = 0
  /\ timers = {}
  /\ batches = <<>>
  /\ recorded = <<>>
  /\ burst = <<>>

\* watch, stat, readDirectory and readFile assign no field
Watch ==
  /\ \E uri \in Paths : TRUE
  /\ UNCHANGED vars

\* dispose() of a handle watch returned: the function () => { }
Dispose == UNCHANGED vars

Stat ==
  /\ \E uri \in Paths : stat(heap, uri).err \in {OK, EntryNotFound}
  /\ UNCHANGED vars

ReadDirectory ==
  /\ \E uri \in Paths : readDirectory(heap, uri).err \in {OK, EntryNotFound, EntryNotADirectory}
  /\ UNCHANGED vars

\* (mutant) a read stores what it returned
ReadFile_Caches ==
  /\ \E uri \in Paths :
       /\ readFile(heap, _data, uri).err = OK
       /\ _data' = DataSet(_data, _lookup(heap, uri).ref, readFile(heap, _data, uri).value)
  /\ UNCHANGED <<heap, _bufferedEvents, _fireSoonHandle, timers, batches, recorded, burst>>

ReadFile ==
  /\ \E uri \in Paths : readFile(heap, _data, uri).err \in {OK, EntryNotFound}
  /\ UNCHANGED vars

WriteFile ==
  /\ Room(Store)
  /\ \E uri \in Paths, content \in Contents, options \in Options, t1 \in Times, t2 \in Times :
       LET r == writeFile(Store, uri, content, options, t1, t2)
       IN Commit(r.st) /\ Burst(r.st)
  /\ UNCHANGED batches

Rename ==
  /\ Room(Store)
  /\ \E oldUri \in Paths, newUri \in Paths :
       LET r == rename(Store, oldUri, newUri)
       IN Commit(r.st) /\ Burst(r.st)
  /\ UNCHANGED batches

Delete ==
  /\ Room(Store)
  /\ \E uri \in Paths, t \in Times :
       LET r == delete(Store, uri, t)
       IN Commit(r.st) /\ Burst(r.st)
  /\ UNCHANGED batches

CreateDirectory ==
  /\ Room(Store)
  /\ \E uri \in Paths, t1 \in Times, t2 \in Times :
       LET r == createDirectory(Store, uri, t1, t2)
       IN Commit(r.st) /\ Burst(r.st)
  /\ UNCHANGED batches

\* what a subscriber may do while it is being called: nothing, or one
\* mutating call back into the provider
NoOptions == [create |-> FALSE, exclusive |-> FALSE]

Call(op, uri, newUri, content, options) ==
  [op |-> op, uri |-> uri, newUri |-> newUri, content |-> content, options |-> options]

NoCall == Call("none", <<>>, <<>>, <<>>, NoOptions)

Reentrant ==
  {Call("writeFile", u, <<>>, c, o) : u \in Paths, c \in Contents, o \in Options}
  \cup {Call("rename", u, v, <<>>, NoOptions) : u \in Paths, v \in Paths}
  \cup {Call("delete", u, <<>>, <<>>, NoOptions) : u \in Paths}
  \cup {Call("createDirectory", u, <<>>, <<>>, NoOptions) : u \in Paths}

Apply(st, call, t1, t2) ==
  CASE call.op = "writeFile" -> writeFile(st, call.uri, call.content, call.options, t1, t2)
    [] call.op = "rename" -> rename(st, call.uri, call.newUri)
    [] call.op = "delete" -> delete(st, call.uri, t1)
    [] call.op = "createDirectory" -> createDirectory(st, call.uri, t1, t2)
    [] OTHER -> Result(OK, st)

\* (mutant) the callback forgets _bufferedEvents.length = 0
TimerCallback_KeepsBuffer(st, call, t1, t2) ==
  LET r == Apply(st, call, t1, t2)
  IN [batch |-> st.buf, st |-> r.st]

\* the timer callback: fire(_bufferedEvents), during which the subscriber
\* makes its call, then _bufferedEvents.length = 0
TimerCallback(st, call, t1, t2) ==
  LET r == Apply(st, call, t1, t2)
  IN [batch |-> st.buf, st |-> [r.st EXCEPT !.buf = <<>>]]

Deliver(r) ==
  /\ batches' = Append(batches, r.batch)
  /\ Commit(r.st)
  /\ burst' = <<>>

Fire ==
  \E t \in timers :
    LET st == [Store EXCEPT !.timers = timers \ {t}]
    IN \/ Deliver(TimerCallback(st, NoCall, 0, 0))
       \/ /\ Room(st)
          /\ \E call \in Reentrant, t1 \in Times, t2 \in Times :
               Deliver(TimerCallback(st, call, t1, t2))

Next ==
  \/ Watch
  \/ Dispose
  \/ Stat
  \/ ReadDirectory
  \/ ReadFile
  \/ WriteFile
  \/ Rename
  \/ Delete
  \/ CreateDirectory
  \/ Fire

Spec == Init /\ [][Next]_vars

\* setTimeout: a timer that stays armed is run by the event loop.  Every
\* _fireSoon call records at least one event, so once no more events are
\* recorded no timer is cleared or re-armed: the one armed stays armed until
\* it fires.
FairSpec == Spec /\ WF_vars(Fire)

\* ---------------------------------------------------------------- views
A == <<Slash, "a">>
B == <<Slash, "b">>
AB == <<Slash, "a", Slash, "b">>

Exists(h, uri) == stat(h, uri).err = OK
IsFile(h, uri) == Exists(h, uri) /\ ~h[stat(h, uri).ref].isDirectory

\* d + "/" + n
ChildPath(d, n) == d \o <<Slash>> \o n

\* p is uri followed by at least one more non-empty part
Below(uri, p) ==
  LET a == SelectSeq(Split(uri), LAMBDA x : x # <<>>)
      b == SelectSeq(Split(p), LAMBDA x : x # <<>>)
  IN Len(b) > Len(a) /\ SubSeq(b, 1, Len(a)) = a

RECURSIVE Flatten(_)
Flatten(bs) == IF bs = <<>> THEN <<>> ELSE Head(bs) \o Flatten(Tail(bs))

\* the (directory, position in its Map) pairs that hold object r
ParentEdges(h, r) ==
  UNION { { <<d, i>> : i \in {j \in 1..Len(h[d].entries) : h[d].entries[j].ref = r} } :
          d \in DOMAIN h }

\* the objects reachable from r by one or more child edges
Descendants(h, r) ==
  LET kids == MapRefs(h[r].entries)
  IN IF kids = {} THEN {} ELSE ReachFrom(h, kids)

\* ---------------------------------------------------------------- claims
\* A claim about what a call does is stated over every state in which the
\* call is made (Room) and every input: the handler's result from that state.

\* C1: whenever write(p, content, {create:true}) succeeds, for any path p the
\* resolver accepts (the root included), read(p) then returns content and
\* stat(p).size is the length of content.
C1_WriteReadRoundTrip ==
  Room(Store) =>
  \A uri \in Paths, content \in Contents, options \in Options, t1 \in Times, t2 \in Times :
    LET r == writeFile(Store, uri, content, options, t1, t2)
        s == After(r.st)
    IN (options.create /\ r.err = OK) =>
         /\ readFile(s.heap, s.data, uri) = [err |-> OK, value |-> content]
         /\ stat(s.heap, uri).err = OK
         /\ s.heap[stat(s.heap, uri).ref].size = Len(content)

\* C2: whenever rename(a, b) succeeds (a = b, b below a and a the root
\* included), stat(a) then fails with EntryNotFound and read(b) returns what
\* read(a) returned before.
C2_RenamePostcondition ==
  Room(Store) =>
  \A a \in Paths, b \in Paths :
    LET r == rename(Store, a, b)
        s == After(r.st)
    IN r.err = OK =>
         /\ stat(s.heap, a).err = EntryNotFound
         /\ readFile(s.heap, s.data, b) = [err |-> OK, value |-> readFile(heap, _data, a).value]

\* C3: whenever delete(p) succeeds, stat(p) and stat of every path below p
\* then fail with EntryNotFound; delete(p) fails with EntryNotFound when the
\* basename of p is absent from its containing directory.
C3_DeletePostcondition ==
  Room(Store) =>
  \A uri \in Paths, t \in Times :
    LET r == delete(Store, uri, t)
        s == After(r.st)
        pl == _lookupDir(heap, Dirname(uri))
    IN /\ r.err = OK =>
            /\ stat(s.heap, uri).err = EntryNotFound
            /\ \A q \in Paths : Below(uri, q) => stat(s.heap, q).err = EntryNotFound
       /\ (pl.err = OK /\ ~MapHas(heap[pl.ref].entries, Basename(uri))) => r.err = EntryNotFound

\* C4: for every directory path d, list(d) holds one pair (n, m) per child
\* name n of d and nothing else, and each m is stat(d + "/" + n).
C4_ListingExact ==
  \A d \in Paths :
    LET l == readDirectory(heap, d)
    IN l.err = OK =>
         /\ \A i \in 1..Len(l.value) :
              LET c == stat(heap, ChildPath(d, l.value[i].name))
              IN c.err = OK /\ c.ref = l.value[i].ref
         /\ \A i \in 1..Len(l.value), j \in 1..Len(l.value) :
              l.value[i].name = l.value[j].name => i = j
         /\ \A q \in Paths :
              LET n == Basename(q)
              IN (n # <<>> /\ Exists(heap, ChildPath(d, n))) =>
                   \E i \in 1..Len(l.value) : l.value[i].name = n

\* C5: with a parent directory that resolves, write fails with EntryNotFound
\* exactly when the target name is absent and create is false, fails with
\* EntryExists exactly when the name is present and create and exclusive are
\* both true, and succeeds otherwise.
C5_WriteOutcome ==
  Room(Store) =>
  \A uri \in Paths, content \in Contents, options \in Options, t1 \in Times, t2 \in Times :
    LET r == writeFile(Store, uri, content, options, t1, t2)
        pl == _lookupContainer(heap, uri)
        present == MapHas(heap[pl.ref].entries, Basename(uri))
    IN pl.err = OK =>
         /\ r.err = EntryNotFound <=> (~present /\ ~options.create)
         /\ r.err = EntryExists <=> (present /\ options.create /\ options.exclusive)
         /\ r.err = OK <=> ~(~present /\ ~options.create)
                           /\ ~(present /\ options.create /\ options.exclusive)

\* C5 witness: a name is present, an exclusive create of it is refused and
\* an exclusive write without create goes through
C5_Witness ==
  /\ Room(Store)
  /\ IsFile(heap, A)
  /\ writeFile(Store, A, <<>>, [create |-> TRUE, exclusive |-> TRUE], 0, 0).err = EntryExists
  /\ writeFile(Store, A, <<>>, [create |-> FALSE, exclusive |-> TRUE], 0, 0).err = OK
  /\ writeFile(Store, B, <<>>, [create |-> FALSE, exclusive |-> FALSE], 0, 0).err = EntryNotFound

\* the fields a failed call must leave alone: the tree with its content, the
\* buffered events and the timer state
Observable(st) == <<st.heap, st.data, st.buf, st.handle, st.timers>>

\* C6: a call of write, rename, delete or mkdir that fails leaves the tree,
\* the buffered events and the scheduled flush exactly as they were (stat,
\* list and read assign nothing at all: see Stat, ReadDirectory, ReadFile).
C6_FailureAtomicity ==
  Room(Store) =>
  /\ \A uri \in Paths, content \in Contents, options \in Options, t1 \in Times, t2 \in Times :
       LET r == writeFile(Store, uri, content, options, t1, t2)
       IN r.err # OK => Observable(r.st) = Observable(Store)
  /\ \A a \in Paths, b \in Paths :
       LET r == rename(Store, a, b)
       IN r.err # OK => Observable(r.st) = Observable(Store)
  /\ \A uri \in Paths, t \in Times :
       LET r == delete(Store, uri, t)
       IN r.err # OK => Observable(r.st) = Observable(Store)
  /\ \A uri \in Paths, t1 \in Times, t2 \in Times :
       LET r == createDirectory(Store, uri, t1, t2)
       IN r.err # OK => Observable(r.st) = Observable(Store)

\* C6 witness: events are buffered, a timer is armed, and a rename whose
\* source resolves fails on its destination
C6_Witness ==
  /\ Room(Store)
  /\ IsFile(heap, A)
  /\ _bufferedEvents # <<>>
  /\ timers # {}
  /\ rename(Store, A, AB).err = EntryNotADirectory
  /\ delete(Store, B, 0).err = EntryNotFound

C8_DeliveredOnceInOrder ==
  recorded = Flatten(batches) \o _bufferedEvents

\* C9: the tree has one root Directory, named "", that is no directory's child.
C9_RootInvariant ==
  /\ heap[_root].isDirectory
  /\ heap[_root].name = <<>>
  /\ \A d \in DOMAIN heap : heap[d].isDirectory => _root \notin MapRefs(heap[d].entries)

\* C10: the entries reachable from the root form a tree: the root is no
\* one's child and every other entry is a child of exactly one directory
\* under exactly one key.
C10_TreeShape ==
  \A r \in DOMAIN heap :
    /\ Cardinality(ParentEdges(heap, r)) = (IF r = _root THEN 0 ELSE 1)
    /\ r \notin Descendants(heap, r)

\* every key of every Map of h is the name of the entry it maps to
KeyNameConsistent(h) ==
  \A d \in DOMAIN h :
    \A i \in 1..Len(h[d].entries) : h[h[d].entries[i].ref].name = h[d].entries[i].name

\* C11: in every state, for every directory D and every key k of D's Map, the
\* entry under k has name k: now, and after whichever mutating call comes next.
C11_KeyNameConsistency ==
  /\ KeyNameConsistent(heap)
  /\ \A call \in Reentrant, t1 \in Times, t2 \in Times :
       KeyNameConsistent(After(Apply(Store, call, t1, t2).st).heap)

\* C12: the size of every Directory is the number of keys of its Map.
C12_DirectorySize ==
  \A d \in DOMAIN heap : heap[d].isDirectory => heap[d].size = Len(heap[d].entries)

\* the call that returned r from st appended exactly evs to the buffer
Emits(st, r, evs) ==
  /\ r.st.buf = st.buf \o evs
  /\ r.st.recorded = st.recorded \o evs

\* C13: a successful write that creates appends Created(p), Changed(p), one
\* that updates appends Changed(p), rename(a, b) appends Deleted(a),
\* Created(b), delete(p) appends Changed(dirname p), Deleted(p) and mkdir(p)
\* appends Changed(dirname p), Created(p), and nothing else; the events of a
\* call are never split over batches: a step that delivers nothing puts what
\* it records behind what is buffered, and a step that delivers hands over
\* the whole buffer and leaves it empty.
C13_EventSequence ==
  /\ [](Room(Store) =>
        /\ \A uri \in Paths, content \in Contents, options \in Options, t1 \in Times, t2 \in Times :
             LET r == writeFile(Store, uri, content, options, t1, t2)
                 created == ~MapHas(heap[_lookupContainer(heap, uri).ref].entries, Basename(uri))
             IN r.err = OK =>
                  Emits(Store, r, IF created THEN <<Event(Created, uri), Event(Changed, uri)>>
                                  ELSE <<Event(Changed, uri)>>)
        /\ \A a \in Paths, b \in Paths :
             LET r == rename(Store, a, b)
             IN r.err = OK => Emits(Store, r, <<Event(Deleted, a), Event(Created, b)>>)
        /\ \A uri \in Paths, t \in Times :
             LET r == delete(Store, uri, t)
             IN r.err = OK => Emits(Store, r, <<Event(Changed, Dirname(uri)), Event(Deleted, uri)>>)
        /\ \A uri \in Paths, t1 \in Times, t2 \in Times :
             LET r == createDirectory(Store, uri, t1, t2)
             IN r.err = OK => Emits(Store, r, <<Event(Changed, Dirname(uri)), Event(Created, uri)>>))
  /\ [][ /\ batches' = batches =>
              _bufferedEvents' = _bufferedEvents
                                 \o SubSeq(recorded', Len(recorded) + 1, Len(recorded'))
         /\ batches' # batches =>
              batches' = Append(batches, _bufferedEvents) /\ _bufferedEvents' = <<>> ]_vars

\* C13 witness: a mkdir and a rename came out as one batch of their four events
C13_Witness ==
  /\ batches = << << Event(Changed, <<Slash>>), Event(Created, A),
                    Event(Deleted, A), Event(Created, B) >> >>
  /\ _bufferedEvents = <<>>

\* the non-empty segments of a path
Segments(p) == SelectSeq(Split(p), LAMBDA x : x # <<>>)

\* the pairs of different paths of Paths with the same non-empty segments
SameSegments ==
  { [p |-> <<>>, q |-> <<Slash>>],
    [p |-> <<Slash, "a">>, q |-> <<Slash, "a", Slash>>],
    [p |-> <<Slash, "a", Slash, "b">>, q |-> <<Slash, "a", Slash, Slash, "b">>] }

\* the paths p of Paths that are a path q of Paths and one more segment n
OneSegmentMore ==
  { [q |-> <<>>, n |-> <<"a">>, p |-> <<Slash, "a">>],
    [q |-> <<Slash>>, n |-> <<"a">>, p |-> <<Slash, "a">>],
    [q |-> <<>>, n |-> <<"a">>, p |-> <<Slash, "a", Slash>>],
    [q |-> <<Slash>>, n |-> <<"a">>, p |-> <<Slash, "a", Slash>>],
    [q |-> <<>>, n |-> <<"b">>, p |-> <<Slash, "b">>],
    [q |-> <<Slash>>, n |-> <<"b">>, p |-> <<Slash, "b">>],
    [q |-> <<Slash, "a">>, n |-> <<"b">>, p |-> <<Slash, "a", Slash, "b">>],
    [q |-> <<Slash, "a", Slash>>, n |-> <<"b">>, p |-> <<Slash, "a", Slash, "b">>],
    [q |-> <<Slash, "a">>, n |-> <<"b">>, p |-> <<Slash, "a", Slash, Slash, "b">>],
    [q |-> <<Slash, "a", Slash>>, n |-> <<"b">>, p |-> <<Slash, "a", Slash, Slash, "b">>] }

\* C14: the empty path and "/" resolve to the root and paths with the same
\* non-empty segments resolve alike; a path one segment n longer than q fails
\* with EntryNotFound when q fails, when q is a File or when q is a directory
\* without key n, and is q's child n otherwise; a directory-only resolution
\* (readDirectory, the parent lookup of writeFile, rename, delete and
\* createDirectory) of a path that resolves to a File fails with
\* EntryNotADirectory.
C14_ResolutionErrors ==
  /\ stat(heap, <<>>) = [err |-> OK, ref |-> _root]
  /\ stat(heap, <<Slash>>) = [err |-> OK, ref |-> _root]
  /\ \A e \in SameSegments :
       /\ stat(heap, e.p) = stat(heap, e.q)
       /\ readDirectory(heap, e.p) = readDirectory(heap, e.q)
  /\ \A e \in OneSegmentMore :
       LET d == stat(heap, e.q)
       IN IF d.err # OK \/ ~heap[d.ref].isDirectory \/ ~MapHas(heap[d.ref].entries, e.n)
          THEN stat(heap, e.p).err = EntryNotFound
          ELSE stat(heap, e.p) = [err |-> OK, ref |-> MapGet(heap[d.ref].entries, e.n)]
  /\ \A p \in Paths :
       LET r == stat(heap, p)
       IN readDirectory(heap, p).err =
            (IF r.err # OK THEN EntryNotFound
             ELSE IF ~heap[r.ref].isDirectory THEN EntryNotADirectory ELSE OK)
  /\ Room(Store) =>
       \A p \in Paths :
         IsFile(heap, Dirname(p)) =>
           /\ \A content \in Contents, options \in Options, t1 \in Times, t2 \in Times :
                writeFile(Store, p, content, options, t1, t2).err = EntryNotADirectory
           /\ \A t \in Times : delete(Store, p, t).err = EntryNotADirectory
           /\ \A t1 \in Times, t2 \in Times :
                createDirectory(Store, p, t1, t2).err = EntryNotADirectory
           /\ \A a \in Paths :
                (Exists(heap, a) /\ _lookupContainer(heap, a).err = OK) =>
                  rename(Store, a, p).err = EntryNotADirectory

\* C14 witness: /a is a File: /a/b is not found behind it, /a/ is /a, and
\* listing it or creating below it is refused as not a directory
C14_Witness ==
  /\ Room(Store)
  /\ IsFile(heap, A)
  /\ stat(heap, AB).err = EntryNotFound
  /\ stat(heap, <<Slash, "a", Slash>>) = stat(heap, A)
  /\ stat(heap, B).err = EntryNotFound
  /\ readDirectory(heap, A).err = EntryNotADirectory
  /\ createDirectory(Store, AB, 0, 0).err = EntryNotADirectory
  /\ rename(Store, A, AB).err = EntryNotADirectory

\* C15: createDirectory(p) on a name its parent directory already holds
\* succeeds; afterwards readDirectory(p) is empty, every path below p fails
\* stat with EntryNotFound and the parent's size is one more than before.
C15_MkdirOverwrites ==
  Room(Store) =>
  \A uri \in Paths, t1 \in Times, t2 \in Times :
    LET r == createDirectory(Store, uri, t1, t2)
        s == After(r.st)
        pl == _lookupDir(heap, Dirname(uri))
    IN (pl.err = OK /\ MapHas(heap[pl.ref].entries, Basename(uri))) =>
         /\ r.err = OK
         /\ readDirectory(s.heap, uri) = [err |-> OK, value |-> <<>>]
         /\ \A q \in Paths : Below(uri, q) => stat(s.heap, q).err = EntryNotFound
         /\ pl.ref \in DOMAIN s.heap
         /\ s.heap[pl.ref].size = heap[pl.ref].size + 1

\* C16: when entries exist at oldPath and at a different newPath,
\* rename(oldPath, newPath) succeeds, the entry that was at newPath and
\* everything below it is unreachable afterwards, newPath resolves to the
\* moved entry, and no mtime, size, kind or content changes and no name
\* other than the moved entry's.
C16_RenameOverwrites ==
  Room(Store) =>
  \A a \in Paths, b \in Paths :
    LET r == rename(Store, a, b)
        s == After(r.st)
        moved == stat(heap, a).ref
        old == stat(heap, b).ref
    IN (Exists(heap, a) /\ Exists(heap, b) /\ Segments(a) # Segments(b)) =>
         /\ r.err = OK
         /\ ({old} \cup Descendants(heap, old)) \cap DOMAIN s.heap = {}
         /\ stat(s.heap, b) = [err |-> OK, ref |-> moved]
         /\ \A o \in DOMAIN s.heap :
              /\ s.heap[o].mtime = heap[o].mtime
              /\ s.heap[o].size = heap[o].size
              /\ s.heap[o].isDirectory = heap[o].isDirectory
              /\ o # moved => s.heap[o].name = heap[o].name
         /\ s.data = [f \in DOMAIN s.data |-> _data[f]]

\* C17: at most one timer is armed, one is armed exactly when the buffer is
\* not empty, and no delivered batch is empty.
C17_NotifierInvariant ==
  /\ Cardinality(timers) <= 1
  /\ timers # {} <=> _bufferedEvents # <<>>
  /\ \A i \in 1..Len(batches) : batches[i] # <<>>

\* C18: when a timer fires and a subscriber calls back into the provider, the
\* events that call records are in the buffer when the callback returns.
C18_NoLossUnderReentrancy ==
  [][ batches' # batches =>
        _bufferedEvents' = SubSeq(recorded', Len(recorded) + 1, Len(recorded')) ]_vars

\* C19: unless events are recorded again and again, the buffer is emptied and
\* no timer is left armed, and whenever the buffer gives up events it is a
\* timer firing that delivers the buffer, whole, as the next batch; as long as
\* calls are made the flush need not come: with events buffered a further
\* call can always record more, leaving one timer armed and nothing delivered.
C19_EventualDelivery ==
  /\ \/ []<><<recorded' # recorded>>_vars
     \/ []<>(_bufferedEvents = <<>> /\ timers = {})
  /\ [][ (_bufferedEvents # <<>> /\ _bufferedEvents' # _bufferedEvents \o
                                      SubSeq(recorded', Len(recorded) + 1, Len(recorded')))
           => batches' = Append(batches, _bufferedEvents) ]_vars
  /\ []((Room(Store) /\ _bufferedEvents # <<>>) =>
          \E uri \in Paths, t1 \in Times, t2 \in Times :
            LET r == createDirectory(Store, uri, t1, t2)
            IN /\ r.err = OK
               /\ Len(r.st.buf) > Len(_bufferedEvents)
               /\ Cardinality(r.st.timers) = 1)

\* C19 witness: two bursts, each followed by quiet, came out as two batches
\* and nothing is left buffered or armed
C19_Witness ==
  /\ Len(batches) = 2
  /\ recorded = Flatten(batches)
  /\ Len(recorded) = MaxRecorded
  /\ _bufferedEvents = <<>>
  /\ timers = {}

\* C20: a step of watch, stat, readDirectory or readFile, failing or not, and
\* a dispose of a watch handle, however often, changes nothing: not the tree
\* or the content, not the buffer or the timers, not the batches delivered.
C20_ReadOnly ==
  [][ (Watch \/ Dispose \/ Stat \/ ReadDirectory \/ ReadFile) =>
        /\ heap' = heap /\ _data' = _data
        /\ _bufferedEvents' = _bufferedEvents
        /\ _fireSoonHandle' = _fireSoonHandle /\ timers' = timers
        /\ batches' = batches ]_vars

\* C20 witness: with events buffered and a timer armed, reads of a File with
\* content succeed and reads of a missing path and a listing of the File fail
C20_Witness ==
  /\ _bufferedEvents # <<>>
  /\ timers # {}
  /\ readFile(heap, _data, A) = [err |-> OK, value |-> <<65>>]
  /\ stat(heap, B).err = EntryNotFound
  /\ readFile(heap, _data, B).err = EntryNotFound
  /\ readDirectory(heap, A).err = EntryNotADirectory
  /\ readDirectory(heap, <<Slash>>).err = OK

====
